---- MODULE Spec2Model ----
(***************************************************************************)
(* A model of aionanoleaf's DigitalTwin (src/aionanoleaf/digital_twin.py)  *)
(* and of the accessor clients: EffectsClient (src/aionanoleaf/effects.py),*)
(* which DigitalTwin.apply_temp drives, LayoutClient and RhythmClient.     *)
(*                                                                         *)
(* Python values are represented as follows.                               *)
(*   - an int is a TLA+ integer; an Optional value is None (the empty      *)
(*     sequence) or Some(v) (the one-element sequence <<v>>);              *)
(*   - a tuple or list is a sequence, a dict is a function;                *)
(*   - a str that the code formats or parses is a sequence of one-letter   *)
(*     strings (<<"1", "0">> is "10"), other strs are TLA+ strings;        *)
(*   - a call that may raise returns [ok |-> TRUE, val |-> v] or           *)
(*     [ok |-> FALSE, exc |-> "ValueError"].                               *)
(***************************************************************************)
EXTENDS Integers, Sequences, FiniteSets, TLC

None == <<>>

Some(v) == <<v>>

Ok(v) == [ok |-> TRUE, val |-> v]

Raise(e) == [ok |-> FALSE, exc |-> e]

Max(a, b) == IF a >= b THEN a ELSE b

Min(a, b) == IF a <= b THEN a ELSE b

(***************************************************************************)
(* Scalar helpers of digital_twin.py                                       *)
(***************************************************************************)

\* _clamp(value, lo=0, hi=255): max(lo, min(hi, int(value)))
_clamp(value) == Max(0, Min(255, value))

\* A variant of _validate_rgb whose range check is off by one (v > 256).
_validate_rgb_lax(rgb) ==
    IF Len(rgb) < 3
    THEN Raise("ValueError")
    ELSE IF \E i \in 1..3 : rgb[i] < 0 \/ rgb[i] > 256
         THEN Raise("ValueError")
         ELSE Ok(<<rgb[1], rgb[2], rgb[3]>>)

\* _validate_rgb(rgb): rgb[0..2] are read (a shorter tuple raises IndexError,
\* re-raised as ValueError); any component outside 0..255 raises ValueError;
\* the final _clamp calls then act on values already within 0..255.
_validate_rgb(rgb) ==
    IF Len(rgb) < 3
    THEN Raise("ValueError")
    ELSE IF \E i \in 1..3 : rgb[i] < 0 \/ rgb[i] > 255
         THEN Raise("ValueError")
         ELSE Ok(<<_clamp(rgb[1]), _clamp(rgb[2]), _clamp(rgb[3])>>)

(***************************************************************************)
(* round(c * (brightness / 100.0)) in IEEE-754 binary64.                   *)
(*                                                                         *)
(* For 1 <= b <= 99 let j be the shift with 1 <= b*2^j/100 < 2 and         *)
(* p = 52 + j.  The quotient b/100.0 is the double M*2^-p whose 53-bit     *)
(* significand M is b*2^p/100 rounded to nearest, so 100*M = b*2^p + d     *)
(* with d = ScaleErr(b) in -49..49 (d is never a tie: b*2^p is a multiple  *)
(* of 4 and 50 is not).  The exact product is c*M*2^-p.  Writing           *)
(* c*b = 100*k + r:                                                        *)
(*   - r # 50: c*b/100 is at least 1/100 away from every half-integer and  *)
(*     the two roundings move the value by less than 2^-44, so round()     *)
(*     returns the integer nearest to c*b/100;                             *)
(*   - r = 50: c*M = (2k+1)*2^(p-1) + D with D = c*d/100 an integer.  The  *)
(*     product is rounded to 53 bits, dropping s = e + j bits, where e is  *)
(*     the binary exponent of the product; the double obtained is          *)
(*     k + 1/2 + n*2^(s-p) with n = D/2^s rounded half-to-even.  round()   *)
(*     then returns k+1 if n > 0, k if n < 0, and the even one of k, k+1   *)
(*     if n = 0.                                                           *)
(***************************************************************************)

RECURSIVE Pow2(_)
Pow2(n) == IF n = 0 THEN 1 ELSE 2 * Pow2(n - 1)

RECURSIVE Pow2Mod100(_)
Pow2Mod100(n) == IF n = 0 THEN 1 ELSE (2 * Pow2Mod100(n - 1)) % 100

\* floor(log2(n)) for n >= 1
RECURSIVE FloorLog2(_)
FloorLog2(n) == IF n <= 1 THEN 0 ELSE 1 + FloorLog2(n \div 2)

\* j with 100 <= b * 2^j < 200, for b in 1..99
ScaleShift(b) == CHOOSE j \in 1..7 : b * Pow2(j) >= 100 /\ b * Pow2(j) < 200

\* 100*M - b*2^p, the rounding error of b/100.0 in units of 2^-p / 100
ScaleErr(b) ==
    LET r == (b * Pow2Mod100(52 + ScaleShift(b))) % 100
    IN  IF r < 50 THEN 0 - r ELSE 100 - r

\* n / m rounded to the nearest integer, ties to the even one (m > 0)
RoundHalfEvenDiv(n, m) ==
    LET q == n \div m
        r == n % m
    IN  IF 2 * r < m THEN q
        ELSE IF 2 * r > m THEN q + 1
        ELSE IF q % 2 = 0 THEN q ELSE q + 1

\* round(c * (b / 100.0)) for c >= 0 and 1 <= b <= 99
RoundScaled(c, b) ==
    LET k == (c * b) \div 100
        r == (c * b) % 100
    IN  IF r # 50
        THEN (c * b + 50) \div 100
        ELSE LET D == (c * ScaleErr(b)) \div 100
                 e == IF k = 0
                      THEN (IF D < 0 THEN 0 - 2 ELSE 0 - 1)
                      ELSE FloorLog2(2 * k + 1) - 1
                 s == e + ScaleShift(b)
                 n == RoundHalfEvenDiv(D, Pow2(s))
             IN  IF n > 0 THEN k + 1
                 ELSE IF n < 0 THEN k
                 ELSE IF k % 2 = 0 THEN k ELSE k + 1

\* round(c * 0.0) = 0
ScaleComponent(c, b) == IF b = 0 THEN 0 ELSE RoundScaled(c, b)

\* A variant that truncates the product instead of rounding it.
_apply_brightness_trunc(rgb, brightness) ==
    IF brightness = None THEN Ok(rgb)
    ELSE IF ~(0 <= brightness[1] /\ brightness[1] <= 100) THEN Raise("ValueError")
    ELSE IF brightness[1] = 100 THEN Ok(rgb)
    ELSE Ok([i \in 1..3 |-> _clamp((rgb[i] * brightness[1]) \div 100)])

\* _apply_brightness(rgb, brightness), brightness: Optional[int]
_apply_brightness(rgb, brightness) ==
    IF brightness = None THEN Ok(rgb)
    ELSE IF ~(0 <= brightness[1] /\ brightness[1] <= 100) THEN Raise("ValueError")
    ELSE IF brightness[1] = 100 THEN Ok(rgb)
    ELSE Ok([i \in 1..3 |-> _clamp(ScaleComponent(rgb[i], brightness[1]))])

(***************************************************************************)
(* str(int), " ".join(...) and their readers                               *)
(***************************************************************************)

Digits == <<"0", "1", "2", "3", "4", "5", "6", "7", "8", "9">>

\* str(n) for n >= 0
RECURSIVE NatToStr(_)
NatToStr(n) ==
    IF n < 10 THEN <<Digits[n + 1]>>
    ELSE NatToStr(n \div 10) \o <<Digits[(n % 10) + 1]>>

\* str(n)
IntToStr(n) == IF n < 0 THEN <<"-">> \o NatToStr(0 - n) ELSE NatToStr(n)

\* " ".join(map(str, ints))
RECURSIVE JoinInts(_)
JoinInts(ints) ==
    IF Len(ints) = 0 THEN <<>>
    ELSE IF Len(ints) = 1 THEN IntToStr(ints[1])
    ELSE IntToStr(ints[1]) \o <<" ">> \o JoinInts(Tail(ints))

\* s.split(" "): the fields between single spaces
RECURSIVE SplitOnSpace(_, _)
SplitOnSpace(s, cur) ==
    IF Len(s) = 0 THEN <<cur>>
    ELSE IF s[1] = " " THEN <<cur>> \o SplitOnSpace(Tail(s), <<>>)
    ELSE SplitOnSpace(Tail(s), Append(cur, s[1]))

DigitVal(ch) == CHOOSE d \in 0..9 : Digits[d + 1] = ch

IsDigit(ch) == \E d \in 0..9 : Digits[d + 1] = ch

\* the field is an optional "-" followed by one or more decimal digits
IsDecimal(f) ==
    LET body == IF Len(f) > 0 /\ f[1] = "-" THEN Tail(f) ELSE f
    IN  Len(body) > 0 /\ \A i \in 1..Len(body) : IsDigit(body[i])

RECURSIVE ParseNat(_, _)
ParseNat(f, acc) ==
    IF Len(f) = 0 THEN acc ELSE ParseNat(Tail(f), 10 * acc + DigitVal(f[1]))

\* int(field)
ParseInt(f) == IF f[1] = "-" THEN 0 - ParseNat(Tail(f), 0) ELSE ParseNat(f, 0)

\* list(map(int, s.split())) for a string of single-space separated fields
ParseInts(s) == LET fs == SplitOnSpace(s, <<>>) IN [i \in 1..Len(fs) |-> ParseInt(fs[i])]

(***************************************************************************)
(* _build_anim                                                             *)
(***************************************************************************)

\* The loop of _build_anim over id_list: the first panel whose colour lookup
\* or brightness overlay raises ends the call; otherwise the records are
\* concatenated in the order of id_list.
RECURSIVE AnimRecords(_, _, _, _)
AnimRecords(id_list, colours, t, brightness) ==
    IF Len(id_list) = 0 THEN Ok(<<>>)
    ELSE LET panel_id == id_list[1] IN
         IF panel_id \notin DOMAIN colours THEN Raise("KeyError")
         ELSE LET c == _apply_brightness(colours[panel_id], brightness) IN
              IF ~c.ok THEN c
              ELSE LET rest == AnimRecords(Tail(id_list), colours, t, brightness) IN
                   IF ~rest.ok THEN rest
                   ELSE Ok(<<panel_id, 1, c.val[1], c.val[2], c.val[3], 0, t>> \o rest.val)

\* A variant of _build_anim that writes the raw transition.
_build_anim_raw_t(ids, colours, transition, brightness) ==
    LET recs == AnimRecords(ids, colours, transition, brightness)
    IN  IF ~recs.ok THEN recs ELSE Ok(JoinInts(<<Len(ids)>> \o recs.val))

\* _build_anim(ids, colours, transition, brightness=...)
_build_anim(ids, colours, transition, brightness) ==
    LET t == Max(0, transition)
        recs == AnimRecords(ids, colours, t, brightness)
    IN  IF ~recs.ok THEN recs ELSE Ok(JoinInts(<<Len(ids)>> \o recs.val))

(***************************************************************************)
(* _hex_to_rgb                                                             *)
(***************************************************************************)

HexDigits == <<"0", "1", "2", "3", "4", "5", "6", "7", "8", "9",
               "a", "b", "c", "d", "e", "f", "A", "B", "C", "D", "E", "F">>

IsHexDigit(ch) == \E i \in 1..22 : HexDigits[i] = ch

HexVal(ch) == LET i == CHOOSE n \in 1..22 : HexDigits[n] = ch
              IN  IF i <= 16 THEN i - 1 ELSE i - 7

\* s.strip() for the whitespace character " "
RECURSIVE LStrip(_)
LStrip(s) == IF Len(s) > 0 /\ s[1] = " " THEN LStrip(Tail(s)) ELSE s

RECURSIVE RStrip(_)
RStrip(s) ==
    IF Len(s) > 0 /\ s[Len(s)] = " " THEN RStrip(SubSeq(s, 1, Len(s) - 1)) ELSE s

Strip(s) == RStrip(LStrip(s))

\* int(t, 16) for a two-character slice t: int() strips whitespace, then
\* accepts an optional sign followed by hexadecimal digits.
HexPair(t) ==
    IF IsHexDigit(t[1]) /\ IsHexDigit(t[2]) THEN Ok(16 * HexVal(t[1]) + HexVal(t[2]))
    ELSE IF t[1] \in {"+", " "} /\ IsHexDigit(t[2]) THEN Ok(HexVal(t[2]))
    ELSE IF t[1] = "-" /\ IsHexDigit(t[2]) THEN Ok(0 - HexVal(t[2]))
    ELSE IF IsHexDigit(t[1]) /\ t[2] = " " THEN Ok(HexVal(t[1]))
    ELSE Raise("ValueError")

\* _hex_to_rgb(s) for a str s
_hex_to_rgb(s0) ==
    IF Len(s0) = 0 THEN Raise("ValueError")
    ELSE LET s1 == Strip(s0)
             s  == IF Len(s1) > 0 /\ s1[1] = "#" THEN Tail(s1) ELSE s1
         IN  IF Len(s) # 6 THEN Raise("ValueError")
             ELSE LET r == HexPair(SubSeq(s, 1, 2))
                      g == HexPair(SubSeq(s, 3, 4))
                      b == HexPair(SubSeq(s, 5, 6))
                  IN  IF ~r.ok THEN r
                      ELSE IF ~g.ok THEN g
                      ELSE IF ~b.ok THEN b
                      ELSE Ok(<<r.val, g.val, b.val>>)

(***************************************************************************)
(* State                                                                   *)
(***************************************************************************)

VARIABLES
    panels,       \* the panel list handed to DigitalTwin.__init__
    ids_ordered,  \* DigitalTwin._ids_ordered
    colors,       \* DigitalTwin.colors
    nl,           \* the client object: which attributes it exposes
    selected,     \* the device: its selected effect (GET/PUT /effects/select)
    pc,           \* "idle", a position inside apply_temp, or "done": a call has
                  \* returned or raised and its outcome is still at hand
    call,         \* the call in progress or just completed, with its arguments
    prev,         \* apply_temp's local `prev`
    exc,          \* apply_temp: exception in flight through the finally block
    reqs,         \* device-facing events issued by the call, oldest first
    result,       \* outcome of the completed call: "ok" or the exception's name
    ret           \* value returned by the completed call, if any

vars == <<panels, ids_ordered, colors, nl, selected, pc, call, prev, exc, reqs, result, ret>>

Range(s) == {s[i] : i \in 1..Len(s)}

\* DigitalTwin._ids_set
_ids_set == Range(ids_ordered)

(***************************************************************************)
(* DigitalTwin.__init__                                                    *)
(***************************************************************************)

\* a sort key that leaves out the y coordinate
KeyLessNoY(p, q) ==
    \/ p.x < q.x
    \/ p.x = q.x /\ p.panel_id < q.panel_id

\* the sort key (p.x, p.y, p.panel_id), compared as Python compares tuples
KeyLess(p, q) ==
    \/ p.x < q.x
    \/ p.x = q.x /\ p.y < q.y
    \/ p.x = q.x /\ p.y = q.y /\ p.panel_id < q.panel_id

\* insert p before the first element with a greater key (stable)
RECURSIVE InsertByKey(_, _)
InsertByKey(p, sorted) ==
    IF Len(sorted) = 0 THEN <<p>>
    ELSE IF KeyLess(p, sorted[1]) THEN <<p>> \o sorted
    ELSE <<sorted[1]>> \o InsertByKey(p, Tail(sorted))

\* sorted(panels, key=lambda p: (p.x, p.y, p.panel_id))
RECURSIVE panels_sorted(_)
panels_sorted(ps) ==
    IF Len(ps) = 0 THEN <<>>
    ELSE InsertByKey(ps[Len(ps)], panels_sorted(SubSeq(ps, 1, Len(ps) - 1)))

\* tuple(p.panel_id for p in panels_sorted)
IdsOf(ps) == [i \in 1..Len(ps) |-> ps[i].panel_id]

\* a table that starts out white
WhiteTable(ids) == [pid \in Range(ids) |-> <<255, 255, 255>>]

\* {pid: (0, 0, 0) for pid in self._ids_ordered}
BlackTable(ids) == [pid \in Range(ids) |-> <<0, 0, 0>>]

(***************************************************************************)
(* Inputs                                                                  *)
(***************************************************************************)

MaxPanels == 2

PanelIds == {10, 20, 30}

XCoords == {0, 5}

YCoords == {0, 10}

\* the sequences over S of length 0..n
RECURSIVE SeqsUpTo(_, _)
SeqsUpTo(S, n) ==
    IF n = 0 THEN {<<>>}
    ELSE LET shorter == SeqsUpTo(S, n - 1)
         IN  shorter \cup {Append(q, e) : q \in shorter, e \in S}

HasDistinctIds(ps) == \A i, j \in 1..Len(ps) : i # j => ps[i].panel_id # ps[j].panel_id

AllPanels == [panel_id : PanelIds, x : XCoords, y : YCoords]

\* the panels of the test fixtures (tests/test_digital_twin.py, DummyLight)
FixturePanels == {[panel_id |-> 20, x |-> 5, y |-> 0],
                  [panel_id |-> 10, x |-> 0, y |-> 0],
                  [panel_id |-> 30, x |-> 10, y |-> 10]}

PanelLists(S) == {ps \in SeqsUpTo(S, MaxPanels) : Len(ps) > 0 /\ HasDistinctIds(ps)}

\* client objects: the attributes sync() and EffectsClient.__init__ probe
FullClient == [write_effect |-> TRUE, effects_write |-> FALSE, display_effect |-> FALSE,
               session |-> TRUE, base |-> TRUE]

WriteOnlyClient == [write_effect |-> TRUE, effects_write |-> FALSE, display_effect |-> FALSE,
                    session |-> FALSE, base |-> FALSE]

LegacyClient == [write_effect |-> FALSE, effects_write |-> TRUE, display_effect |-> TRUE,
                 session |-> TRUE, base |-> TRUE]

\* a client with write_effect and a session, but no base URL, host or token
NoBaseClient == [write_effect |-> TRUE, effects_write |-> FALSE, display_effect |-> FALSE,
                 session |-> TRUE, base |-> FALSE]

Clients == {FullClient, WriteOnlyClient, LegacyClient, NoBaseClient}

Effects == {"", "Snowfall", "Aurora"}

PanelIdInputs == PanelIds \cup {9999}

RgbInputs == {<<0, 0, 0>>, <<255, 45, 0>>, <<256, 0, 0>>, <<0, 0, 300>>, <<0, 0 - 1, 0>>, <<1, 2>>}

HexInputs ==
    {<<"#", "F", "F", "2", "D", "0", "0">>, <<"G", "G", "H", "H", "I", "I">>,
     <<"+", "0", "+", "0", "+", "0">>}

CommandInputs == {"display", "displayTemp", "flash"}

OnlyInputs == {None, Some(<<>>), Some(<<10>>), Some(<<20, 10, 20>>), Some(<<10, 9999>>)}

BrightnessInputs == {None, Some(70), Some(101)}

TransitionInputs == {0 - 5, 10}

TempOnlyInputs == {None, Some(<<10>>), Some(<<9999>>)}

TempBrightnessInputs == {None, Some(101)}

TempTransitionInputs == {60}

DurationInputs == {0 - 5, 2000}

(***************************************************************************)
(* Construction                                                            *)
(***************************************************************************)

NoCall == [op |-> "none"]

\* DigitalTwin(nl0, ps) on a device whose selected effect is "Snowfall"
Construct(nl0, ps) ==
    /\ panels = ps
    /\ ids_ordered = IdsOf(panels_sorted(ps))
    /\ colors = BlackTable(IdsOf(panels_sorted(ps)))
    /\ nl = nl0
    /\ selected = "Snowfall"
    /\ pc = "idle"
    /\ call = NoCall
    /\ prev = None
    /\ exc = None
    /\ reqs = <<>>
    /\ result = "none"
    /\ ret = None

Init == \E nl0 \in Clients, ps \in PanelLists(FixturePanels) : Construct(nl0, ps)

(***************************************************************************)
(* Editing                                                                 *)
(***************************************************************************)

\* an editing method that pushes the colour table to the device at once
WriteThrough ==
    <<[kind |-> "WRITE", method |-> "write_effect", payload |-> "animData", ok |-> TRUE]>>

\* the requests issued by the introspection and editing methods: they read
\* and assign self.colors / self._ids_ordered and call nothing on self._nl
LocalRequests == <<>>

\* an assignment that reaches every key of the dict
DictFill(d, k, v) == [x \in DOMAIN d \cup {k} |-> v]

\* d[k] = v on a dict
DictSet(d, k, v) == [x \in DOMAIN d \cup {k} |-> IF x = k THEN v ELSE d[x]]

\* a set_color that does not look the panel id up in _ids_set
SetColorEffectUnchecked(panel_id, rgb) ==
    LET v == _validate_rgb(rgb)
    IN  IF ~v.ok
        THEN [colors |-> colors, result |-> v.exc]
        ELSE [colors |-> DictSet(colors, panel_id, v.val), result |-> "ok"]

\* the effect of set_color(panel_id, rgb) on (colors, result)
SetColorEffect(panel_id, rgb) ==
    IF panel_id \notin _ids_set
    THEN [colors |-> colors, result |-> "ValueError"]
    ELSE LET v == _validate_rgb(rgb)
         IN  IF ~v.ok
             THEN [colors |-> colors, result |-> v.exc]
             ELSE [colors |-> DictSet(colors, panel_id, v.val), result |-> "ok"]

Idle == pc = "idle"

set_color ==
    \E panel_id \in PanelIdInputs, rgb \in RgbInputs :
        LET e == SetColorEffect(panel_id, rgb) IN
        /\ Idle
        /\ call' = [op |-> "set_color", panel_id |-> panel_id, rgb |-> rgb]
        /\ colors' = e.colors
        /\ result' = e.result
        /\ reqs' = LocalRequests
        /\ pc' = "done"
        /\ UNCHANGED <<panels, ids_ordered, nl, selected, prev, exc, ret>>

set_hex ==
    \E panel_id \in PanelIdInputs, hex_colour \in HexInputs :
        LET h == _hex_to_rgb(hex_colour)
            e == IF h.ok THEN SetColorEffect(panel_id, h.val)
                 ELSE [colors |-> colors, result |-> h.exc]
        IN
        /\ Idle
        /\ call' = [op |-> "set_hex", panel_id |-> panel_id, hex_colour |-> hex_colour]
        /\ colors' = e.colors
        /\ result' = e.result
        /\ reqs' = LocalRequests
        /\ pc' = "done"
        /\ UNCHANGED <<panels, ids_ordered, nl, selected, prev, exc, ret>>

set_all_colors ==
    \E rgb \in RgbInputs :
        LET v == _validate_rgb(rgb) IN
        /\ Idle
        /\ call' = [op |-> "set_all_colors", rgb |-> rgb]
        /\ colors' = IF v.ok
                     THEN [pid \in DOMAIN colors \cup _ids_set |->
                              IF pid \in _ids_set THEN v.val ELSE colors[pid]]
                     ELSE colors
        /\ result' = IF v.ok THEN "ok" ELSE v.exc
        /\ reqs' = LocalRequests
        /\ pc' = "done"
        /\ UNCHANGED <<panels, ids_ordered, nl, selected, prev, exc, ret>>

(***************************************************************************)
(* Introspection                                                           *)
(***************************************************************************)

\* the property twin.ids: list(self._ids_ordered)
ids_property ==
    /\ Idle
    /\ call' = [op |-> "ids"]
    /\ ret' = Some(ids_ordered)
    /\ result' = "ok"
    /\ reqs' = LocalRequests
    /\ pc' = "done"
    /\ UNCHANGED <<panels, ids_ordered, colors, nl, selected, prev, exc>>

\* get_color(panel_id): self.colors[int(panel_id)]
get_color ==
    \E panel_id \in PanelIdInputs :
        /\ Idle
        /\ call' = [op |-> "get_color", panel_id |-> panel_id]
        /\ ret' = IF panel_id \in DOMAIN colors THEN Some(colors[panel_id]) ELSE None
        /\ result' = IF panel_id \in DOMAIN colors THEN "ok" ELSE "KeyError"
        /\ reqs' = LocalRequests
        /\ pc' = "done"
        /\ UNCHANGED <<panels, ids_ordered, colors, nl, selected, prev, exc>>

\* get_all_colors(): dict(self.colors)
get_all_colors ==
    /\ Idle
    /\ call' = [op |-> "get_all_colors"]
    /\ ret' = Some(colors)
    /\ result' = "ok"
    /\ reqs' = LocalRequests
    /\ pc' = "done"
    /\ UNCHANGED <<panels, ids_ordered, colors, nl, selected, prev, exc>>

(***************************************************************************)
(* Rendering                                                               *)
(***************************************************************************)

\* the first write method sync() finds on the client, if any
WriteMethod ==
    IF nl.write_effect THEN Some("write_effect")
    ELSE IF nl.effects_write THEN Some("effects_write")
    ELSE IF nl.display_effect THEN Some("display_effect")
    ELSE None

\* a sync() that ignores `only`
SyncIdsAll(only) == ids_ordered

\* the ids sync() renders: all of them, or those of _ids_ordered in only_set
SyncIds(only) ==
    IF only = None THEN ids_ordered
    ELSE LET only_set == Range(only[1])
             InOnly(pid) == pid \in only_set
         IN  SelectSeq(ids_ordered, InOnly)

Payload(command, anim) ==
    [command |-> command, version |-> "1.0", animType |-> "static",
     animData |-> anim, palette |-> <<>>, loop |-> FALSE]

\* a sync() that passes any command on to the device
SyncCallAnyCommand(transition_ms, command, only, brightness, dev_ok) ==
    IF only # None /\ Range(only[1]) \ _ids_set # {}
    THEN [exc |-> "ValueError", reqs |-> <<>>]
    ELSE LET anim == _build_anim(SyncIds(only), colors, transition_ms, brightness) IN
         IF ~anim.ok
         THEN [exc |-> anim.exc, reqs |-> <<>>]
         ELSE IF WriteMethod = None
         THEN [exc |-> "RuntimeError", reqs |-> <<>>]
         ELSE [exc  |-> IF dev_ok THEN "ok" ELSE "DeviceError",
               reqs |-> <<[kind |-> "WRITE", method |-> WriteMethod[1],
                           payload |-> Payload(command, anim.val), ok |-> dev_ok]>>]

\* sync(transition_ms, command, only, brightness) when the device answers the
\* write with dev_ok: the exception raised ("ok" if none) and the writes issued
SyncCall(transition_ms, command, only, brightness, dev_ok) ==
    IF command \notin {"display", "displayTemp"}
    THEN [exc |-> "ValueError", reqs |-> <<>>]
    ELSE IF only # None /\ Range(only[1]) \ _ids_set # {}
    THEN [exc |-> "ValueError", reqs |-> <<>>]
    ELSE LET anim == _build_anim(SyncIds(only), colors, transition_ms, brightness) IN
         IF ~anim.ok
         THEN [exc |-> anim.exc, reqs |-> <<>>]
         ELSE IF WriteMethod = None
         THEN [exc |-> "RuntimeError", reqs |-> <<>>]
         ELSE [exc  |-> IF dev_ok THEN "ok" ELSE "DeviceError",
               reqs |-> <<[kind |-> "WRITE", method |-> WriteMethod[1],
                           payload |-> Payload(command, anim.val), ok |-> dev_ok]>>]

sync ==
    \E transition_ms \in TransitionInputs, command \in CommandInputs,
       only \in OnlyInputs, brightness \in BrightnessInputs, dev_ok \in BOOLEAN :
        LET o == SyncCall(transition_ms, command, only, brightness, dev_ok) IN
        /\ Idle
        /\ call' = [op |-> "sync", transition_ms |-> transition_ms, command |-> command,
                    only |-> only, brightness |-> brightness]
        /\ reqs' = o.reqs
        /\ result' = o.exc
        /\ pc' = "done"
        /\ UNCHANGED <<panels, ids_ordered, colors, nl, selected, prev, exc, ret>>

(***************************************************************************)
(* EffectsClient, as far as apply_temp uses it                             *)
(***************************************************************************)

\* What the session does with one request: net = FALSE is a network error,
\* otherwise the response has a status and, for a GET, a JSON body that is the
\* effect name ("str"), {"select": name} ("dict") or something else ("other").
\* A body that is a list of names is "list"; one that is not JSON is "garbled".
Responses ==
    {[net |-> FALSE, status |-> 0, body |-> "other"]} \cup
    [net : {TRUE}, status : {200, 401, 403, 404, 500},
     body : {"str", "dict", "list", "other", "garbled"}]

\* an EffectsClient that can be built from any client object
EffectsClientInitLenient == "ok"

\* EffectsClient.__init__(nl)
EffectsClientInit == IF nl.session /\ nl.base THEN "ok" ELSE "APIError"

\* a status check that knows 401 only
TransportOutcome401(resp) ==
    IF ~resp.net THEN "UnavailableError"
    ELSE IF resp.status = 401 THEN "UnauthorizedError"
    ELSE IF resp.status >= 400 THEN "UnavailableError"
    ELSE "ok"

\* _get_json / _put_json: the exception the transport raises, "ok" if none.
\* The APIError raised for a status >= 400 is raised inside the try block and
\* is re-raised by `except Exception` as UnavailableError.
TransportOutcome(resp) ==
    IF ~resp.net THEN "UnavailableError"
    ELSE IF resp.status = 401 \/ resp.status = 403 THEN "UnauthorizedError"
    ELSE IF resp.status >= 400 THEN "UnavailableError"
    ELSE "ok"

\* the exception classes of effects.py: cls is base or a subclass of it
IsInstance(cls, base) ==
    \/ cls = base
    \/ base = "APIError" /\ cls \in {"UnauthorizedError", "UnavailableError"}

\* str(e) of the exception raised inside the try block of _get_json /
\* _put_json; UnavailableError(str(e)) carries the same text.  body_keys is
\* None for a GET and Some(list(body.keys())) for a PUT.
Message(verb, path, body_keys, resp) ==
    IF ~resp.net
    THEN [text |-> "network", status |-> 0, body_keys |-> None]
    ELSE IF resp.status = 401 \/ resp.status = 403
    THEN [text |-> "status: txt", status |-> resp.status, body_keys |-> None]
    ELSE [text |-> verb \o " path -> status: txt", status |-> resp.status,
          body_keys |-> body_keys]

DecodeMessage == [text |-> "decode", status |-> 200, body_keys |-> None]

\* EffectsClient._get_json(path): the decoded body, or the exception raised
_get_json(path, resp) ==
    IF TransportOutcome(resp) # "ok"
    THEN [ok |-> FALSE, exc |-> TransportOutcome(resp),
          msg |-> Message("GET", path, None, resp)]
    ELSE IF resp.body = "garbled"
    THEN [ok |-> FALSE, exc |-> "UnavailableError", msg |-> DecodeMessage]
    ELSE [ok |-> TRUE, val |-> resp.body]

\* EffectsClient._put_json(path, body): None, or the exception raised
_put_json(path, body_keys, resp) ==
    IF TransportOutcome(resp) # "ok"
    THEN [ok |-> FALSE, exc |-> TransportOutcome(resp),
          msg |-> Message("PUT", path, Some(body_keys), resp)]
    ELSE [ok |-> TRUE, val |-> None]

\* get_selected_effect() when the device's selected effect is `name`
get_selected_effect(resp, name) ==
    LET data == _get_json("/effects/select", resp) IN
    IF ~data.ok THEN Raise(data.exc)
    ELSE IF data.val \in {"str", "dict"} THEN Ok(name)
    ELSE Raise("APIError")

\* select_effect(name): the exception raised, "ok" if none
select_effect(resp) ==
    LET r == _put_json("/effects", <<"select">>, resp) IN
    IF r.ok THEN "ok" ELSE r.exc

\* the device applies a PUT it has answered with a status below 400
DeviceAccepts(resp) == resp.net /\ resp.status < 400

(***************************************************************************)
(* apply_temp                                                              *)
(***************************************************************************)

\* entry: ef = EffectsClient(self._nl); prev = None
apply_temp_start ==
    \E transition_ms \in TempTransitionInputs, duration_ms \in DurationInputs,
       only \in TempOnlyInputs, brightness \in TempBrightnessInputs :
        /\ Idle
        /\ call' = [op |-> "apply_temp", transition_ms |-> transition_ms,
                    duration_ms |-> duration_ms, only |-> only,
                    brightness |-> brightness, start_effect |-> selected]
        /\ reqs' = <<>>
        /\ prev' = None
        /\ exc' = None
        /\ IF EffectsClientInit = "ok"
           THEN pc' = "get" /\ result' = "running"
           ELSE pc' = "done" /\ result' = EffectsClientInit
        /\ UNCHANGED <<panels, ids_ordered, colors, nl, selected, ret>>

\* try: prev = await ef.get_selected_effect()  except Exception: prev = None
apply_temp_get ==
    \E resp \in Responses :
        LET r == get_selected_effect(resp, selected)
            p == IF r.ok THEN Some(r.val) ELSE None
        IN
        /\ pc = "get"
        /\ prev' = p
        /\ reqs' = Append(reqs, [kind |-> "GET", path |-> "/effects/select", ret |-> p])
        /\ pc' = "sync"
        /\ UNCHANGED <<panels, ids_ordered, colors, nl, selected, call, exc, result, ret>>

\* a persistent scene in place of the temporary one
TempCommandPersistent == "display"

\* the scene command apply_temp passes to sync()
TempCommand == "displayTemp"

\* an apply_temp without try/finally: an exception of sync() leaves at once
apply_temp_sync_no_finally ==
    \E dev_ok \in BOOLEAN :
        LET o == SyncCall(call.transition_ms, TempCommand, call.only, call.brightness, dev_ok) IN
        /\ pc = "sync"
        /\ reqs' = reqs \o o.reqs
        /\ IF o.exc = "ok"
           THEN pc' = "sleep" /\ exc' = None /\ UNCHANGED <<prev, result>>
           ELSE pc' = "done" /\ exc' = None /\ prev' = None /\ result' = o.exc
        /\ UNCHANGED <<panels, ids_ordered, colors, nl, selected, call, ret>>

\* await self.sync(..., command="displayTemp", ...); an exception skips the sleep
apply_temp_sync ==
    \E dev_ok \in BOOLEAN :
        LET o == SyncCall(call.transition_ms, TempCommand, call.only, call.brightness, dev_ok) IN
        /\ pc = "sync"
        /\ reqs' = reqs \o o.reqs
        /\ IF o.exc = "ok"
           THEN pc' = "sleep" /\ exc' = None
           ELSE pc' = "finally" /\ exc' = Some(o.exc)
        /\ UNCHANGED <<panels, ids_ordered, colors, nl, selected, call, prev, result, ret>>

\* await self._sleep_ms(max(0, int(duration_ms))) has elapsed
apply_temp_sleep ==
    /\ pc = "sleep"
    /\ reqs' = Append(reqs, [kind |-> "WAIT", ms |-> Max(0, call.duration_ms)])
    /\ pc' = "finally"
    /\ UNCHANGED <<panels, ids_ordered, colors, nl, selected, call, prev, exc, result, ret>>

\* a finally block that never restores
TruthyNever(p) == FALSE

\* `if prev is not None:`
TruthyNotNone(p) == p # None

\* `if prev:` is false for None and for the empty string
Truthy(p) == p # None /\ p[1] # ""

\* a finally block that restores only while the device still shows the
\* effect that was read
apply_temp_finally_unless_changed ==
    \E resp \in Responses :
        /\ pc = "finally"
        /\ IF Truthy(prev) /\ selected = prev[1]
           THEN /\ reqs' = Append(reqs, [kind |-> "PUT", path |-> "/effects",
                                         select |-> prev[1],
                                         ok |-> select_effect(resp) = "ok"])
                /\ selected' = IF DeviceAccepts(resp) THEN prev[1] ELSE selected
           ELSE UNCHANGED <<reqs, selected>>
        /\ result' = IF exc = None THEN "ok" ELSE exc[1]
        /\ pc' = "done"
        /\ prev' = None
        /\ exc' = None
        /\ UNCHANGED <<panels, ids_ordered, colors, nl, call, ret>>

\* finally: if prev: try: await ef.select_effect(prev) except Exception: pass
\* and then the call returns, or re-raises the exception in flight
apply_temp_finally ==
    \E resp \in Responses :
        /\ pc = "finally"
        /\ IF Truthy(prev)
           THEN /\ reqs' = Append(reqs, [kind |-> "PUT", path |-> "/effects",
                                         select |-> prev[1],
                                         ok |-> select_effect(resp) = "ok"])
                /\ selected' = IF DeviceAccepts(resp) THEN prev[1] ELSE selected
           ELSE UNCHANGED <<reqs, selected>>
        /\ result' = IF exc = None THEN "ok" ELSE exc[1]
        /\ pc' = "done"
        /\ prev' = None
        /\ exc' = None
        /\ UNCHANGED <<panels, ids_ordered, colors, nl, call, ret>>

\* another client of the device (app, remote) selects a different effect,
\* between the twin's calls or while apply_temp is waiting out duration_ms
OtherSelect ==
    \E e \in Effects \ {selected} :
        /\ pc \in {"idle", "sleep"}
        /\ selected' = e
        /\ UNCHANGED <<panels, ids_ordered, colors, nl, pc, call, prev, exc, reqs, result, ret>>

\* the caller has looked at the outcome of the call and goes on
NextCall ==
    /\ pc = "done"
    /\ pc' = "idle"
    /\ call' = NoCall
    /\ reqs' = <<>>
    /\ result' = "none"
    /\ ret' = None
    /\ UNCHANGED <<panels, ids_ordered, colors, nl, selected, prev, exc>>

Next ==
    \/ ids_property
    \/ get_color
    \/ get_all_colors
    \/ set_color
    \/ set_hex
    \/ set_all_colors
    \/ sync
    \/ apply_temp_start
    \/ apply_temp_get
    \/ apply_temp_sync
    \/ apply_temp_sleep
    \/ apply_temp_finally
    \/ OtherSelect
    \/ NextCall

Spec == Init /\ [][Next]_vars

(***************************************************************************)
(* The twin over every layout: construction and rendering only             *)
(***************************************************************************)

InitLayout == \E ps \in PanelLists(AllPanels) : Construct(FullClient, ps)

NextLayout ==
    \/ sync
    \/ NextCall

SpecLayout == InitLayout /\ [][NextLayout]_vars

(***************************************************************************)
(* _build_anim called on its own (it is exported by the module)            *)
(***************************************************************************)

MaxAnimLen == 2

AnimIds == {0 - 3, 0, 120, 9999}

AnimColours == (0 - 3) :> <<10, 20, 30>> @@ 0 :> <<1, 2, 3>> @@ 120 :> <<255, 0, 45>>

\* calls that vary the id list and the transition
ShapeCalls ==
    [op : {"_build_anim"}, ids : SeqsUpTo(AnimIds, MaxAnimLen), colours : {AnimColours},
     transition : {0 - 5, 0, 75}, brightness : {None, Some(50), Some(100), Some(101)}]

\* calls that vary the colour components and the brightness
BrightnessCalls ==
    {[op |-> "_build_anim", ids |-> <<120>>,
      colours |-> 120 :> <<c, 255 - c, (3 * c) % 256>>,
      transition |-> 10, brightness |-> b] :
        c \in 0..255, b \in {None} \cup {Some(n) : n \in 0..100}}

InitAnim ==
    /\ call \in ShapeCalls \cup BrightnessCalls
    /\ panels = <<>>
    /\ ids_ordered = <<>>
    /\ colors = <<>>
    /\ nl = FullClient
    /\ selected = "Snowfall"
    /\ pc = "idle"
    /\ prev = None
    /\ exc = None
    /\ reqs = <<>>
    /\ result = "none"
    /\ ret = None

build_anim ==
    LET a == _build_anim(call.ids, call.colours, call.transition, call.brightness) IN
    /\ pc = "idle"
    /\ call.op = "_build_anim"
    /\ pc' = "done"
    /\ result' = IF a.ok THEN "ok" ELSE a.exc
    /\ ret' = IF a.ok THEN Some(a.val) ELSE None
    /\ UNCHANGED <<panels, ids_ordered, colors, nl, selected, call, prev, exc, reqs>>

NextAnim == build_anim

SpecAnim == InitAnim /\ [][NextAnim]_vars

(***************************************************************************)
(* The accessor clients on their own: EffectsClient over the client's      *)
(* session, LayoutClient and RhythmClient over the client's _get_json /    *)
(* _put_json                                                               *)
(***************************************************************************)

\* a client with a session, a base URL, _get_json / _put_json and cached info
CoreClient == [session |-> TRUE, base |-> TRUE, _get_json |-> TRUE, _put_json |-> TRUE,
               info |-> TRUE]

\* a client that has only a session and a base URL
SessionClient == [session |-> TRUE, base |-> TRUE, _get_json |-> FALSE, _put_json |-> FALSE,
                  info |-> FALSE]

\* a client that has a session, a base URL and cached info
CachedClient == [session |-> TRUE, base |-> TRUE, _get_json |-> FALSE, _put_json |-> FALSE,
                 info |-> TRUE]

AccessorClients == {CoreClient, SessionClient, CachedClient}

InitClients ==
    /\ nl \in AccessorClients
    /\ selected = "Snowfall"
    /\ panels = <<>>
    /\ ids_ordered = <<>>
    /\ colors = <<>>
    /\ pc = "idle"
    /\ call = NoCall
    /\ prev = None
    /\ exc = None
    /\ reqs = <<>>
    /\ result = "none"
    /\ ret = None

\* one request as the session (or the client's own transport) saw it, with
\* what the transport layer raised for it
Request(kind, path, body_keys, resp, r) ==
    [kind |-> kind, path |-> path, body_keys |-> body_keys, resp |-> resp,
     exc |-> IF r.ok THEN "ok" ELSE r.exc,
     msg |-> IF r.ok THEN [text |-> "", status |-> resp.status, body_keys |-> None]
             ELSE r.msg]

\* the outcome of an accessor: requests issued, exception raised, value returned
Outcome(rq, e, v) == [reqs |-> rq, result |-> e, ret |-> v]

\* an accessor that asks once more when the request has failed
EffectsGetRetrying(path, resp, accepted, value) ==
    LET data == _get_json(path, resp)
        rq   == Request("GET", path, None, resp, data)
    IN  IF ~data.ok THEN Outcome(<<rq, rq>>, data.exc, None)
        ELSE IF data.val \in accepted THEN Outcome(<<rq>>, "ok", Some(value))
        ELSE Outcome(<<rq>>, "APIError", None)

\* data = await self._get_json(path); a body of an accepted shape is
\* returned, any other raises APIError("Unexpected ... payload")
EffectsGet(path, resp, accepted, value) ==
    LET data == _get_json(path, resp)
        rq   == Request("GET", path, None, resp, data)
    IN  IF ~data.ok THEN Outcome(<<rq>>, data.exc, None)
        ELSE IF data.val \in accepted THEN Outcome(<<rq>>, "ok", Some(value))
        ELSE Outcome(<<rq>>, "APIError", None)

\* await self._put_json("/effects", {key: ...})
EffectsPut(key, resp) ==
    LET r == _put_json("/effects", <<key>>, resp) IN
    Outcome(<<Request("PUT", "/effects", Some(<<key>>), resp, r)>>,
            IF r.ok THEN "ok" ELSE r.exc, None)

\* an accessor call that returns or raises in one step
Complete(c, o) ==
    /\ Idle
    /\ call' = c
    /\ reqs' = o.reqs
    /\ result' = o.result
    /\ ret' = o.ret
    /\ pc' = "done"

EffectsClient_get_effects_list ==
    \E resp \in Responses :
        /\ EffectsClientInit = "ok"
        /\ Complete([op |-> "get_effects_list", client |-> "EffectsClient"],
                    EffectsGet("/effects/effectsList", resp, {"list"}, "names"))
        /\ UNCHANGED <<panels, ids_ordered, colors, nl, selected, prev, exc>>

EffectsClient_get_selected_effect ==
    \E resp \in Responses :
        /\ EffectsClientInit = "ok"
        /\ Complete([op |-> "get_selected_effect", client |-> "EffectsClient"],
                    EffectsGet("/effects/select", resp, {"str", "dict"}, selected))
        /\ UNCHANGED <<panels, ids_ordered, colors, nl, selected, prev, exc>>

EffectsClient_select_effect ==
    \E resp \in Responses, name \in Effects \ {""} :
        /\ EffectsClientInit = "ok"
        /\ Complete([op |-> "select_effect", client |-> "EffectsClient", name |-> name],
                    EffectsPut("select", resp))
        /\ selected' = IF DeviceAccepts(resp) THEN name ELSE selected
        /\ UNCHANGED <<panels, ids_ordered, colors, nl, prev, exc>>

EffectsClient_write_effect ==
    \E resp \in Responses :
        /\ EffectsClientInit = "ok"
        /\ Complete([op |-> "write_effect", client |-> "EffectsClient"],
                    EffectsPut("write", resp))
        /\ UNCHANGED <<panels, ids_ordered, colors, nl, selected, prev, exc>>

\* await self._nl._get_json(path) on a client that has the method: the
\* client issues the request and returns the decoded body or raises
ClientGet(path, resp) ==
    IF resp.net /\ resp.status < 400 /\ resp.body # "garbled"
    THEN [ok |-> TRUE, val |-> resp.body]
    ELSE [ok |-> FALSE, exc |-> "Exception", msg |-> Message("GET", path, None, resp)]

\* await self._nl._put_json(path, {key: ...}) on a client that has the method
ClientPut(path, key, resp) ==
    IF resp.net /\ resp.status < 400
    THEN [ok |-> TRUE, val |-> None]
    ELSE [ok |-> FALSE, exc |-> "Exception",
          msg |-> Message("PUT", path, Some(<<key>>), resp)]

\* LayoutClient.get_positions(): the layout is asked for if the client has a
\* callable _get_json, any exception leaves data = None; positionData comes
\* from the answer if it is a dict, else from the cached info, else it is []
get_positions_call(resp) ==
    LET cached == IF nl.info THEN "cached positionData" ELSE "[]" IN
    IF ~nl._get_json THEN Outcome(<<>>, "ok", Some(cached))
    ELSE LET data == ClientGet("/panelLayout/layout", resp)
             rq   == Request("GET", "/panelLayout/layout", None, resp, data)
         IN  IF data.ok /\ data.val = "dict"
             THEN Outcome(<<rq>>, "ok", Some("positionData"))
             ELSE Outcome(<<rq>>, "ok", Some(cached))

\* LayoutClient.get_global_orientation(): an int, the "value" of a dict, or None
get_global_orientation_call(resp) ==
    IF ~nl._get_json THEN Outcome(<<>>, "AttributeError", None)
    ELSE LET data == ClientGet("/panelLayout/globalOrientation", resp)
             rq   == Request("GET", "/panelLayout/globalOrientation", None, resp, data)
         IN  IF ~data.ok THEN Outcome(<<rq>>, data.exc, None)
             ELSE IF data.val = "other" THEN Outcome(<<rq>>, "ok", Some("int"))
             ELSE IF data.val = "dict" THEN Outcome(<<rq>>, "ok", Some("value"))
             ELSE Outcome(<<rq>>, "ok", Some("None"))

\* LayoutClient.set_global_orientation(angle): the angle is clamped to 0..360
set_global_orientation_call(angle, resp) ==
    LET a == IF angle < 0 \/ angle > 360 THEN Max(0, Min(360, angle)) ELSE angle IN
    IF ~nl._put_json THEN Outcome(<<>>, "AttributeError", None)
    ELSE LET r  == ClientPut("/panelLayout/globalOrientation", "value", resp)
             rq == Request("PUT", "/panelLayout/globalOrientation", Some(<<"value">>), resp, r)
         IN  Outcome(<<rq>>, IF r.ok THEN "ok" ELSE r.exc, Some(a))

\* RhythmClient.get_info(): the /rhythm dict; {} when the call fails in any
\* way (a client without _get_json included) or the answer is no dict
get_info_call(resp) ==
    IF ~nl._get_json THEN Outcome(<<>>, "ok", Some("{}"))
    ELSE LET data == ClientGet("/rhythm", resp)
             rq   == Request("GET", "/rhythm", None, resp, data)
         IN  IF data.ok /\ data.val = "dict"
             THEN Outcome(<<rq>>, "ok", Some("dict"))
             ELSE Outcome(<<rq>>, "ok", Some("{}"))

\* RhythmClient.is_active(): info.get("rhythmActive") as a bool, else False
is_active_call(resp) ==
    LET info == get_info_call(resp) IN
    Outcome(info.reqs, "ok",
            IF info.ret = Some("dict") THEN Some("rhythmActive") ELSE Some("False"))

\* RhythmClient.get_mode(): int(info.get("rhythmMode")), else None
get_mode_call(resp) ==
    LET info == get_info_call(resp) IN
    Outcome(info.reqs, "ok",
            IF info.ret = Some("dict") THEN Some("rhythmMode") ELSE Some("None"))

\* _MODE_MAP
_MODE_MAP == [microphone |-> 0, mic |-> 0, aux |-> 1]

\* a mode argument is an int or a str (lower case, no blanks around it)
IntMode(n) == [isstr |-> FALSE, int |-> n, str |-> ""]

StrMode(t) == [isstr |-> TRUE, int |-> 0, str |-> t]

ModeInputs == {IntMode(0), IntMode(1), IntMode(2), StrMode("aux"), StrMode("mic"), StrMode("usb")}

AngleInputs == {0 - 10, 90, 400}

\* RhythmClient.set_mode(mode): the mode is validated, then PUT as rhythmMode
set_mode_call(mode, resp) ==
    LET valid == IF mode.isstr THEN mode.str \in DOMAIN _MODE_MAP ELSE mode.int \in {0, 1}
        mode_int == IF mode.isstr THEN _MODE_MAP[mode.str] ELSE mode.int
    IN  IF ~valid THEN Outcome(<<>>, "ValueError", None)
        ELSE IF ~nl._put_json THEN Outcome(<<>>, "AttributeError", None)
        ELSE LET r == ClientPut("/rhythm", "rhythmMode", resp) IN
             Outcome(<<Request("PUT", "/rhythm", Some(<<"rhythmMode">>), resp, r)>>,
                     IF r.ok THEN "ok" ELSE r.exc, Some(mode_int))

LayoutClient_get_positions ==
    \E resp \in Responses :
        /\ Complete([op |-> "get_positions", client |-> "LayoutClient"],
                    get_positions_call(resp))
        /\ UNCHANGED <<panels, ids_ordered, colors, nl, selected, prev, exc>>

LayoutClient_get_global_orientation ==
    \E resp \in Responses :
        /\ Complete([op |-> "get_global_orientation", client |-> "LayoutClient"],
                    get_global_orientation_call(resp))
        /\ UNCHANGED <<panels, ids_ordered, colors, nl, selected, prev, exc>>

LayoutClient_set_global_orientation ==
    \E resp \in Responses, angle \in AngleInputs :
        /\ Complete([op |-> "set_global_orientation", client |-> "LayoutClient",
                     angle |-> angle],
                    set_global_orientation_call(angle, resp))
        /\ UNCHANGED <<panels, ids_ordered, colors, nl, selected, prev, exc>>

RhythmClient_get_info ==
    \E resp \in Responses :
        /\ Complete([op |-> "get_info", client |-> "RhythmClient"], get_info_call(resp))
        /\ UNCHANGED <<panels, ids_ordered, colors, nl, selected, prev, exc>>

RhythmClient_is_active ==
    \E resp \in Responses :
        /\ Complete([op |-> "is_active", client |-> "RhythmClient"], is_active_call(resp))
        /\ UNCHANGED <<panels, ids_ordered, colors, nl, selected, prev, exc>>

RhythmClient_get_mode ==
    \E resp \in Responses :
        /\ Complete([op |-> "get_mode", client |-> "RhythmClient"], get_mode_call(resp))
        /\ UNCHANGED <<panels, ids_ordered, colors, nl, selected, prev, exc>>

RhythmClient_set_mode ==
    \E resp \in Responses, mode \in ModeInputs :
        /\ Complete([op |-> "set_mode", client |-> "RhythmClient", mode |-> mode],
                    set_mode_call(mode, resp))
        /\ UNCHANGED <<panels, ids_ordered, colors, nl, selected, prev, exc>>

NextClients ==
    \/ EffectsClient_get_effects_list
    \/ EffectsClient_get_selected_effect
    \/ EffectsClient_select_effect
    \/ EffectsClient_write_effect
    \/ LayoutClient_get_positions
    \/ LayoutClient_get_global_orientation
    \/ LayoutClient_set_global_orientation
    \/ RhythmClient_get_info
    \/ RhythmClient_is_active
    \/ RhythmClient_get_mode
    \/ RhythmClient_set_mode
    \/ NextCall

SpecClients == InitClients /\ [][NextClients]_vars

(***************************************************************************)
(* DigitalTwin.create: where the panels come from                          *)
(***************************************************************************)

\* a value that is no list (None, a dict, a str)
NotAList == [islist |-> FALSE, items |-> <<>>]

ListOf(items) == [islist |-> TRUE, items |-> items]

\* an entry of positionData: a dict with or without the keys panelId, x, y
PositionEntry(pid, x, y) == [isdict |-> TRUE, panelId |-> pid, x |-> x, y |-> y]

\* an entry of positionData that is no dict
NotADict == [isdict |-> FALSE, panelId |-> None, x |-> None, y |-> None]

\* the loop of _extract_from_position_list: dicts that have panelId, x and y
RECURSIVE ExtractItems(_)
ExtractItems(items) ==
    IF items = <<>> THEN <<>>
    ELSE LET p == Head(items) IN
         IF p.isdict /\ p.panelId # None /\ p.x # None /\ p.y # None
         THEN <<[panel_id |-> p.panelId[1], x |-> p.x[1], y |-> p.y[1]]>>
              \o ExtractItems(Tail(items))
         ELSE ExtractItems(Tail(items))

\* _extract_from_position_list(pos)
_extract_from_position_list(pos) == IF pos.islist THEN ExtractItems(pos.items) ELSE <<>>

\* What a layout method of the client is: not callable ("absent"), raising,
\* or returning a value that is a dict with positionData or no dict at all.
NoMethod == [kind |-> "absent", positionData |-> NotAList]

Raising == [kind |-> "raises", positionData |-> NotAList]

Returning(kind, pos) == [kind |-> kind, positionData |-> pos]

\* a layout lookup that goes on to panel_layout when get_panel_layout finds nothing
_get_layout_positions_both ==
    LET first  == IF nl.get_panel_layout.kind = "dict"
                  THEN _extract_from_position_list(nl.get_panel_layout.positionData)
                  ELSE <<>>
        second == IF nl.panel_layout.kind = "dict"
                  THEN _extract_from_position_list(nl.panel_layout.positionData)
                  ELSE <<>>
    IN  IF nl.get_panel_layout.kind = "raises" THEN Raise("Exception")
        ELSE IF first # <<>> THEN Ok(first)
        ELSE IF nl.panel_layout.kind = "raises" THEN Raise("Exception")
        ELSE Ok(second)

\* _get_layout_positions(nl): get_panel_layout() if callable, else
\* panel_layout() if callable; the positionData of a dict, else []
_get_layout_positions ==
    LET layout == IF nl.get_panel_layout.kind # "absent" THEN nl.get_panel_layout
                  ELSE nl.panel_layout
    IN  IF layout.kind = "raises" THEN Raise("Exception")
        ELSE IF layout.kind = "dict"
        THEN Ok(_extract_from_position_list(layout.positionData))
        ELSE Ok(<<>>)

\* _get_info_positions(nl) for the info dict cur (kind "dict"), or no dict
_get_info_positions(cur) ==
    IF cur.kind # "dict" THEN <<>> ELSE _extract_from_position_list(cur.positionData)

\* a panel object of nl.panels: each attribute is there (Some) or missing
PanelObject(panelId, id, x, x_coordinate, y, y_coordinate) ==
    [panelId |-> panelId, id |-> id, x |-> x, x_coordinate |-> x_coordinate,
     y |-> y, y_coordinate |-> y_coordinate]

\* getattr(obj, a, None), falling back to attribute b only when it is None
FirstAttr(a, b) == IF a # None THEN a ELSE b

RECURSIVE ObjectItems(_)
ObjectItems(items) ==
    IF items = <<>> THEN <<>>
    ELSE LET obj == Head(items)
             pid == FirstAttr(obj.panelId, obj.id)
             x   == FirstAttr(obj.x, obj.x_coordinate)
             y   == FirstAttr(obj.y, obj.y_coordinate)
         IN  IF pid # None /\ x # None /\ y # None
             THEN <<[panel_id |-> pid[1], x |-> x[1], y |-> y[1]]>> \o ObjectItems(Tail(items))
             ELSE ObjectItems(Tail(items))

\* _get_object_positions(nl)
_get_object_positions ==
    IF nl.panels.islist THEN ObjectItems(nl.panels.items) ELSE <<>>

\* the positionData values the clients below answer with
PositionLists ==
    {NotAList,
     ListOf(<<>>),
     ListOf(<<NotADict, PositionEntry(Some(10), Some(0), None)>>),
     ListOf(<<PositionEntry(Some(20), Some(5), Some(0)),
              PositionEntry(Some(10), Some(0), Some(0))>>),
     ListOf(<<PositionEntry(None, Some(1), Some(1)),
              PositionEntry(Some(30), Some(10), Some(10))>>)}

LayoutMethods ==
    {NoMethod, Raising, Returning("nondict", NotAList)}
    \cup {Returning("dict", pos) : pos \in PositionLists}

InfoValues ==
    {Returning("nondict", NotAList), Returning("dict", NotAList),
     Returning("dict", ListOf(<<PositionEntry(Some(40), Some(0), Some(0))>>))}

ObjectLists ==
    {NotAList,
     ListOf(<<PanelObject(None, Some(7), Some(3), None, None, None)>>),
     ListOf(<<PanelObject(None, Some(0), None, Some(0), None, Some(0)),
              PanelObject(Some(50), None, Some(0), None, Some(5), None)>>)}

\* the client objects create() is tried on; get_info is "absent", "raises"
\* or "returns", and then leaves `populated` in nl.info
CreateClients ==
    [get_info : {"absent", "raises", "returns"},
     get_panel_layout : LayoutMethods,
     panel_layout : LayoutMethods,
     info : InfoValues,
     populated : {Returning("dict", ListOf(<<PositionEntry(Some(60), Some(2), Some(2))>>))},
     panels : ObjectLists,
     write_effect : {TRUE}, effects_write : {FALSE}, display_effect : {FALSE},
     session : {TRUE}, base : {TRUE}]

\* before create(): there is a client and no twin yet
InitCreate ==
    /\ nl \in CreateClients
    /\ panels = <<>>
    /\ ids_ordered = <<>>
    /\ colors = <<>>
    /\ selected = "Snowfall"
    /\ pc = "idle"
    /\ call = NoCall
    /\ prev = None
    /\ exc = None
    /\ reqs = <<>>
    /\ result = "none"
    /\ ret = None

\* nl.info once _maybe_populate_info(nl) has returned
InfoAfterPopulate == IF nl.get_info = "returns" THEN nl.populated ELSE nl.info

\* the outcome of create(nl): the panel list cls(nl, panels) is called with,
\* or the exception raised
CreateCall ==
    IF nl.get_info = "raises" THEN Raise("Exception")
    ELSE LET layout == _get_layout_positions IN
         IF ~layout.ok THEN layout
         ELSE IF layout.val # <<>> THEN layout
         ELSE IF _get_info_positions(InfoAfterPopulate) # <<>>
         THEN Ok(_get_info_positions(InfoAfterPopulate))
         ELSE IF _get_object_positions # <<>> THEN Ok(_get_object_positions)
         ELSE Raise("RuntimeError")

\* twin = await DigitalTwin.create(nl)
create ==
    LET c == CreateCall IN
    /\ Idle
    /\ ids_ordered = <<>>
    /\ call' = [op |-> "create"]
    /\ nl' = IF nl.get_info = "returns" THEN [nl EXCEPT !.info = nl.populated] ELSE nl
    /\ IF c.ok
       THEN /\ panels' = c.val
            /\ ids_ordered' = IdsOf(panels_sorted(c.val))
            /\ colors' = BlackTable(IdsOf(panels_sorted(c.val)))
            /\ result' = "ok"
       ELSE /\ UNCHANGED <<panels, ids_ordered, colors>>
            /\ result' = c.exc
    /\ reqs' = <<>>
    /\ pc' = "done"
    /\ UNCHANGED <<selected, prev, exc, ret>>

NextCreate ==
    \/ create
    \/ NextCall

SpecCreate == InitCreate /\ [][NextCreate]_vars

(***************************************************************************)
(* Reading a call's outcome                                                *)
(***************************************************************************)

Done(op) == pc = "done" /\ call.op = op

EventsOfKind(k) == LET Is(e) == e.kind = k IN SelectSeq(reqs, Is)

\* the record ids of an animData string, in the order they are listed
RecordIds(anim) ==
    LET t == ParseInts(anim) IN [i \in 1..((Len(t) - 1) \div 7) |-> t[2 + 7 * (i - 1)]]

\* the k-th field (0..6) of the i-th record of an animData string
Field(anim, i, k) == ParseInts(anim)[2 + 7 * (i - 1) + k]

AllDecimal(anim) ==
    LET fs == SplitOnSpace(anim, <<>>) IN \A i \in 1..Len(fs) : IsDecimal(fs[i])

PanelAt(id) == CHOOSE p \in Range(panels) : p.panel_id = id

\* p comes before q by x, then y, then id
XYIdBefore(p, q) ==
    \/ p.x < q.x
    \/ p.x = q.x /\ p.y < q.y
    \/ p.x = q.x /\ p.y = q.y /\ p.panel_id < q.panel_id

XYIdOrdered(ids) ==
    \A i, j \in 1..Len(ids) : i < j => XYIdBefore(PanelAt(ids[i]), PanelAt(ids[j]))

(***************************************************************************)
(* C1                                                                      *)
(***************************************************************************)

\* C1: twin.ids lists the ids of the panels given to the constructor sorted by
\* x, then y, then id, and every animData string written by sync lists its
\* records in that same order.
C1_PanelOrder ==
    /\ Len(ids_ordered) = Len(panels)
    /\ Range(ids_ordered) = {p.panel_id : p \in Range(panels)}
    /\ XYIdOrdered(ids_ordered)
    /\ \A k \in 1..Len(reqs) :
          reqs[k].kind = "WRITE" =>
              /\ AllDecimal(reqs[k].payload.animData)
              /\ XYIdOrdered(RecordIds(reqs[k].payload.animData))

\* two panels that share x and differ in y, handed over in the wrong order,
\* and a sync with `only` that wrote both of them
C1_Witness ==
    /\ Done("sync")
    /\ call.only # None
    /\ Len(panels) = 2
    /\ panels[1].x = panels[2].x
    /\ panels[1].y > panels[2].y
    /\ panels[1].panel_id < panels[2].panel_id
    /\ Len(reqs) = 1
    /\ Len(RecordIds(reqs[1].payload.animData)) = 2

(***************************************************************************)
(* C2, C3                                                                  *)
(***************************************************************************)

EveryRequestSucceeded ==
    \A k \in 1..Len(reqs) :
        /\ reqs[k].kind = "GET" => reqs[k].ret # None
        /\ reqs[k].kind = "WRITE" => reqs[k].ok
        /\ reqs[k].kind = "PUT" => reqs[k].ok

\* C2: when apply_temp returns after a call in which every request succeeded
\* and the device had a non-empty effect E selected at its start, the device
\* has E selected and a "displayTemp" write has been issued.
C2_RestoresEffect ==
    (/\ Done("apply_temp")
     /\ result = "ok"
     /\ call.start_effect # ""
     /\ EveryRequestSucceeded)
    => /\ selected = call.start_effect
       /\ \E k \in 1..Len(reqs) :
             reqs[k].kind = "WRITE" /\ reqs[k].payload.command = "displayTemp"

C2_Witness ==
    /\ Done("apply_temp")
    /\ result = "ok"
    /\ call.start_effect = "Snowfall"
    /\ EveryRequestSucceeded
    /\ Len(EventsOfKind("PUT")) = 1
    /\ selected = "Snowfall"

KindRank(k) == CASE k = "GET" -> 1 [] k = "WRITE" -> 2 [] k = "WAIT" -> 3 [] k = "PUT" -> 4

\* C3: the device-facing events of one apply_temp call are, in this order and
\* at most once each, the GET of the selected effect, the scene write, the
\* wait of max(0, duration_ms) and the PUT selecting the effect the GET
\* returned; the scene write uses the command "displayTemp".
C3_EventOrder ==
    call.op = "apply_temp" =>
        /\ \A i, j \in 1..Len(reqs) : i < j => KindRank(reqs[i].kind) < KindRank(reqs[j].kind)
        /\ Len(reqs) > 0 => reqs[1].kind = "GET"
        /\ \A k \in 1..Len(reqs) :
              /\ reqs[k].kind = "WRITE" => reqs[k].payload.command = "displayTemp"
              /\ reqs[k].kind = "WAIT" =>
                    reqs[k].ms = (IF call.duration_ms > 0 THEN call.duration_ms ELSE 0)
              /\ reqs[k].kind = "PUT" => reqs[1].ret = Some(reqs[k].select)

C3_Witness ==
    /\ Done("apply_temp")
    /\ Len(reqs) = 4
    /\ call.duration_ms < 0
    /\ reqs[3].kind = "WAIT"
    /\ reqs[3].ms = 0
    /\ reqs[4].kind = "PUT"

(***************************************************************************)
(* C4                                                                      *)
(***************************************************************************)

\* the integers C4 describes: N, then (id, 1, R, G, B, 0, T) for each id
ExpectedInts(ids, colours, T) ==
    [n \in 1..(1 + 7 * Len(ids)) |->
        IF n = 1 THEN Len(ids)
        ELSE LET i == ((n - 2) \div 7) + 1
                 k == (n - 2) % 7
             IN  CASE k = 0 -> ids[i]
                   [] k = 1 -> 1
                   [] k \in {2, 3, 4} -> colours[ids[i]][k - 1]
                   [] k = 5 -> 0
                   [] k = 6 -> T]

\* C4: for ids that all have a colour, and no brightness overlay, _build_anim
\* returns 1 + 7*N decimal integers separated by single spaces: N, then for
\* each id in the given order (id, 1, R, G, B, 0, max(0, transition)).
C4_AnimShape ==
    (/\ Done("_build_anim")
     /\ call.brightness \in {None, Some(100)}
     /\ Range(call.ids) \subseteq DOMAIN call.colours)
    => /\ result = "ok"
       /\ AllDecimal(ret[1])
       /\ Len(ParseInts(ret[1])) = 1 + 7 * Len(call.ids)
       /\ ParseInts(ret[1]) =
             ExpectedInts(call.ids, call.colours,
                          IF call.transition > 0 THEN call.transition ELSE 0)

\* a list that repeats nothing, holds a negative id and is not in id order,
\* rendered with a negative transition
C4_Witness ==
    /\ Done("_build_anim")
    /\ call.brightness = None
    /\ call.ids = <<120, 0 - 3>>
    /\ call.transition < 0
    /\ result = "ok"
    /\ Len(ParseInts(ret[1])) = 15

(***************************************************************************)
(* C5, C6                                                                  *)
(***************************************************************************)

OutOfRange(rgb) == Len(rgb) >= 3 /\ \E i \in 1..3 : rgb[i] < 0 \/ rgb[i] > 255

C6_SetColorClamps ==
    (/\ Done("set_color")
     /\ call.panel_id \in Range(ids_ordered)
     /\ call.rgb = <<0, 0, 300>>)
    => /\ result = "ok"
       /\ colors[call.panel_id] = <<0, 0, 255>>

(***************************************************************************)
(* C7                                                                      *)
(***************************************************************************)

\* the panels a sync call selects: all of them, or the distinct ids of `only`
Selected(only) == IF only = None THEN Range(ids_ordered) ELSE Range(only[1])

\* the write of a successful sync: one write, a static scene, the requested
\* command, and one record for exactly each selected panel
OneWritePerSelection ==
    /\ Len(reqs) = 1
    /\ reqs[1].kind = "WRITE"
    /\ reqs[1].ok
    /\ reqs[1].payload.animType = "static"
    /\ reqs[1].payload.command = call.command
    /\ AllDecimal(reqs[1].payload.animData)
    /\ LET anim == reqs[1].payload.animData
           ids  == RecordIds(anim)
       IN  /\ ParseInts(anim)[1] = Cardinality(Selected(call.only))
           /\ Len(ids) = Cardinality(Selected(call.only))
           /\ Range(ids) = Selected(call.only)
           /\ Len(ParseInts(anim)) = 1 + 7 * Len(ids)
           /\ \A i \in 1..Len(ids) : Field(anim, i, 1) = 1 /\ Field(anim, i, 5) = 0

\* c under the overlay b: c itself without overlay or at 100, otherwise an
\* integer nearest to c*b/100
Overlaid(e, c, b) ==
    IF b = None \/ b = Some(100) THEN e = c
    ELSE 100 * e - c * b[1] >= 0 - 50 /\ 100 * e - c * b[1] <= 50

\* C7 as stated: every record carries the panel's twin colour and the given
\* transition.
C7_RecordsCarryTwinColour ==
    (Done("sync") /\ result = "ok")
    => /\ OneWritePerSelection
       /\ LET anim == reqs[1].payload.animData IN
          \A i \in 1..Len(RecordIds(anim)) :
              /\ \A k \in 1..3 : Field(anim, i, 1 + k) = colors[RecordIds(anim)[i]][k]
              /\ Field(anim, i, 6) = call.transition_ms

\* C7, amended: every record carries the panel's twin colour under the
\* brightness overlay of the call (the colour itself when brightness is None
\* or 100) and the transition max(0, transition_ms).
C7_RecordsCarryOverlaidColour ==
    (Done("sync") /\ result = "ok")
    => /\ OneWritePerSelection
       /\ LET anim == reqs[1].payload.animData IN
          \A i \in 1..Len(RecordIds(anim)) :
              /\ \A k \in 1..3 :
                    Overlaid(Field(anim, i, 1 + k), colors[RecordIds(anim)[i]][k],
                             call.brightness)
              /\ Field(anim, i, 6) = (IF call.transition_ms > 0 THEN call.transition_ms ELSE 0)

\* a successful sync of a coloured twin with only = [20, 10, 20]
C7_Witness ==
    /\ Done("sync")
    /\ result = "ok"
    /\ call.only = Some(<<20, 10, 20>>)
    /\ call.brightness = Some(70)
    /\ colors[10] = <<255, 45, 0>>
    /\ Len(RecordIds(reqs[1].payload.animData)) = 2

(***************************************************************************)
(* C8                                                                      *)
(***************************************************************************)

\* n/100 rounded to the nearest integer, ties to the even neighbour
NearestHalfEven(n) ==
    IF n % 100 < 50 THEN n \div 100
    ELSE IF n % 100 > 50 THEN (n \div 100) + 1
    ELSE IF (n \div 100) % 2 = 0 THEN n \div 100 ELSE (n \div 100) + 1

\* a completed _build_anim call on one panel with brightness b in 0..100
OverlayCall ==
    /\ Done("_build_anim")
    /\ Len(call.ids) = 1
    /\ call.ids[1] \in DOMAIN call.colours
    /\ call.brightness # None
    /\ call.brightness[1] \in 0..100

WithoutOverlay ==
    (/\ Done("_build_anim")
     /\ Len(call.ids) = 1
     /\ call.ids[1] \in DOMAIN call.colours
     /\ call.brightness \in {None, Some(100)})
    => /\ result = "ok"
       /\ \A k \in 1..3 : Field(ret[1], 1, 1 + k) = call.colours[call.ids[1]][k]

\* C8 as stated: every emitted component is c*b/100 rounded half-to-even.
C8_RoundsHalfEven ==
    /\ WithoutOverlay
    /\ OverlayCall =>
          /\ result = "ok"
          /\ \A k \in 1..3 :
                LET c == call.colours[call.ids[1]][k]
                    e == Field(ret[1], 1, 1 + k)
                IN  e = NearestHalfEven(c * call.brightness[1]) /\ e \in 0..c

\* C8, amended: every emitted component lies in 0..c and is the integer
\* nearest to c*b/100; where c*b/100 lies exactly halfway between two
\* integers it is one of the two.
C8_RoundsToNearest ==
    /\ WithoutOverlay
    /\ OverlayCall =>
          /\ result = "ok"
          /\ \A k \in 1..3 :
                LET c == call.colours[call.ids[1]][k]
                    e == Field(ret[1], 1, 1 + k)
                    n == c * call.brightness[1]
                IN  /\ e \in 0..c
                    /\ n % 100 < 50 => e = n \div 100
                    /\ n % 100 > 50 => e = (n \div 100) + 1
                    /\ n % 100 = 50 => e \in {n \div 100, (n \div 100) + 1}

\* 45 at brightness 70 is 31.5: the call emits 31, the odd neighbour
C8_Witness ==
    /\ OverlayCall
    /\ call.brightness = Some(70)
    /\ call.colours[call.ids[1]][1] = 45
    /\ Field(ret[1], 1, 2) = 31

(***************************************************************************)
(* C9, C10                                                                 *)
(***************************************************************************)

\* C9: whatever calls have been made, twin.ids is the sequence the constructor
\* built from its panel list and the colour table has exactly those ids as keys.
C9_PanelsFixed ==
    /\ ids_ordered = IdsOf(panels_sorted(panels))
    /\ DOMAIN colors = Range(ids_ordered)

\* a set_color for a panel the twin does not have has just raised, on a twin
\* that has been edited before
C9_Witness ==
    /\ Done("set_color")
    /\ call.panel_id \notin Range(ids_ordered)
    /\ call.rgb = <<255, 45, 0>>
    /\ result = "ValueError"
    /\ \E pid \in DOMAIN colors : colors[pid] # <<0, 0, 0>>

ColoursInRange ==
    \A pid \in DOMAIN colors :
        /\ Len(colors[pid]) = 3
        /\ \A k \in 1..3 : colors[pid][k] \in 0..255

\* C10: right after construction every panel is black, and in every state
\* every stored colour is a triple of integers within 0..255.
C10_ColoursValid ==
    /\ \A pid \in DOMAIN colors : colors[pid] = <<0, 0, 0>>
    /\ DOMAIN colors = Range(ids_ordered)
    /\ []ColoursInRange

\* both panels of a two-panel twin carry a colour other than black
C10_Witness ==
    /\ Len(ids_ordered) = 2
    /\ \A pid \in DOMAIN colors : colors[pid] # <<0, 0, 0>>
    /\ \E pid \in DOMAIN colors : colors[pid] = <<255, 45, 0>>

(***************************************************************************)
(* C11                                                                     *)
(***************************************************************************)

\* the string without one leading "#"
Unhashed(s) == IF Len(s) > 0 /\ s[1] = "#" THEN Tail(s) ELSE s

\* six hexadecimal digits after an optional leading "#"
SixHexDigits(s) ==
    /\ Len(Unhashed(s)) = 6
    /\ \A i \in 1..6 : IsHexDigit(Unhashed(s)[i])

\* the byte written by the i-th pair of digits of RRGGBB
HexByte(s, i) == 16 * HexVal(Unhashed(s)[2 * i - 1]) + HexVal(Unhashed(s)[2 * i])

\* C11: set_hex on a known panel stores the triple decoded from the three
\* hexadecimal byte pairs of "#RRGGBB"; a string that is not six hexadecimal
\* digits after an optional "#" raises ValueError and leaves the colour table
\* as it was.
C11_SetHexDecodesOrRejects ==
    [][(/\ pc = "idle"
        /\ call'.op = "set_hex"
        /\ call'.panel_id \in Range(ids_ordered))
       => IF SixHexDigits(call'.hex_colour)
          THEN /\ result' = "ok"
               /\ colors' = [colors EXCEPT ![call'.panel_id] =
                                <<HexByte(call'.hex_colour, 1),
                                  HexByte(call'.hex_colour, 2),
                                  HexByte(call'.hex_colour, 3)>>]
          ELSE /\ result' = "ValueError"
               /\ colors' = colors]_vars

(***************************************************************************)
(* C12, C13                                                                *)
(***************************************************************************)

\* the requests of the EffectsClient call that has just completed
EffectsRequests ==
    IF pc = "done" /\ call.client = "EffectsClient" THEN reqs ELSE <<>>

Answered(e) == e.resp.net

Unauthorized(e) == Answered(e) /\ e.resp.status \in {401, 403}

ErrorStatus(e) == Answered(e) /\ e.resp.status >= 400 /\ ~Unauthorized(e)

Undecodable(e) == e.kind = "GET" /\ e.resp.body = "garbled"

\* what C12 says of a request answered with 401, 403 or another status >= 400
RaisesForErrorStatus(e) ==
    /\ Unauthorized(e) => e.exc = "UnauthorizedError"
    /\ ErrorStatus(e) =>
          /\ e.exc # "ok"
          /\ IsInstance(e.exc, "APIError")
          /\ e.kind = "PUT" => e.msg.body_keys = e.body_keys /\ e.body_keys # None

\* C12 as stated: 401 or 403 raises UnauthorizedError, any other status >= 400
\* raises an APIError whose message, for a PUT, carries the keys of the
\* request body, and a status below 400 raises nothing from the transport.
C12_StatusDecides ==
    \A i \in 1..Len(EffectsRequests) :
        /\ RaisesForErrorStatus(EffectsRequests[i])
        /\ (Answered(EffectsRequests[i]) /\ EffectsRequests[i].resp.status < 400) => EffectsRequests[i].exc = "ok"

\* C12 as amended: the same for 401, 403 and the other statuses >= 400; a
\* status below 400 raises nothing from the transport, except for a GET
\* whose body cannot be decoded, which raises UnavailableError.
C12_StatusOrBodyDecides ==
    \A i \in 1..Len(EffectsRequests) :
        /\ RaisesForErrorStatus(EffectsRequests[i])
        /\ (Answered(EffectsRequests[i]) /\ EffectsRequests[i].resp.status < 400) =>
              EffectsRequests[i].exc = IF Undecodable(EffectsRequests[i]) THEN "UnavailableError" ELSE "ok"

\* write_effect answered with 500 has raised an APIError naming the key "write"
C12_Witness ==
    /\ Done("write_effect")
    /\ Len(reqs) = 1
    /\ reqs[1].kind = "PUT"
    /\ reqs[1].resp.status = 500
    /\ IsInstance(result, "APIError")
    /\ reqs[1].msg.body_keys = Some(<<"write">>)

\* C13: UnavailableError is raised only when the request could not be
\* completed or its body not decoded; a request answered with a status >= 400
\* other than 401/403 raises an APIError that is not an UnavailableError.
C13_UnavailableOnlyOffline ==
    \A i \in 1..Len(EffectsRequests) :
        /\ EffectsRequests[i].exc = "UnavailableError" => (~Answered(EffectsRequests[i]) \/ Undecodable(EffectsRequests[i]))
        /\ ErrorStatus(EffectsRequests[i]) =>
              IsInstance(EffectsRequests[i].exc, "APIError") /\ EffectsRequests[i].exc # "UnavailableError"

(***************************************************************************)
(* C14                                                                     *)
(***************************************************************************)

LocalOps == {"ids", "get_color", "get_all_colors", "set_color", "set_hex", "set_all_colors"}

\* C14: a call of ids, get_color, get_all_colors, set_color, set_hex or
\* set_all_colors issues no request and leaves the device as it was, and
\* every step that issues a request is a step of sync or of apply_temp: the
\* device sees an edited colour only in the write of a later sync.
C14_LocalMirror ==
    [][/\ (pc = "idle" /\ call'.op \in LocalOps) => (reqs' = <<>> /\ selected' = selected)
       /\ (reqs' # reqs /\ reqs' # <<>>) => call'.op \in {"sync", "apply_temp"}]_vars

\* set_all_colors has just recoloured a twin of two panels, without a request
C14_Witness ==
    /\ Done("set_all_colors")
    /\ result = "ok"
    /\ Len(ids_ordered) = 2
    /\ \A pid \in DOMAIN colors : colors[pid] = <<255, 45, 0>>
    /\ reqs = <<>>

(***************************************************************************)
(* C15                                                                     *)
(***************************************************************************)

GetAccessors ==
    {"get_effects_list", "get_selected_effect", "get_positions",
     "get_global_orientation", "get_info", "is_active", "get_mode"}

PutAccessors == {"select_effect", "write_effect", "set_global_orientation", "set_mode"}

\* the REST path each accessor is documented to use
FixedPath(op) ==
    CASE op = "get_effects_list" -> "/effects/effectsList"
      [] op = "get_selected_effect" -> "/effects/select"
      [] op \in {"select_effect", "write_effect"} -> "/effects"
      [] op = "get_positions" -> "/panelLayout/layout"
      [] op \in {"get_global_orientation", "set_global_orientation"} ->
            "/panelLayout/globalOrientation"
      [] op \in {"get_info", "is_active", "get_mode", "set_mode"} -> "/rhythm"

\* the arguments of the completed call are valid: set_mode takes 0, 1 or a
\* known name, the other accessors take no argument that can be invalid
ValidArguments ==
    call.op = "set_mode" =>
        IF call.mode.isstr THEN call.mode.str \in {"microphone", "mic", "aux"}
        ELSE call.mode.int \in {0, 1}

OneRequestToFixedPath ==
    /\ Len(reqs) = 1
    /\ reqs[1].path = FixedPath(call.op)
    /\ reqs[1].kind = IF call.op \in GetAccessors THEN "GET" ELSE "PUT"

\* the client object offers the transport the completed call goes through:
\* its session for EffectsClient, its _get_json or _put_json for the others
HasTransport ==
    IF call.client = "EffectsClient" THEN nl.session
    ELSE IF call.op \in GetAccessors THEN nl._get_json
    ELSE nl._put_json

\* C15 as stated: every accessor call with valid arguments issues exactly one
\* GET or PUT to its fixed path, whether that request succeeds or fails.
C15_ExactlyOneRequest ==
    (pc = "done" /\ call.op \in GetAccessors \cup PutAccessors /\ ValidArguments)
    => OneRequestToFixedPath

\* C15 as amended: an accessor call with valid arguments issues exactly one
\* GET or PUT to its fixed path when the client object offers the transport
\* it goes through, and no request when it does not; no call issues a second
\* request, whether the first one failed or not.
C15_OneRequestIfTransport ==
    (pc = "done" /\ call.op \in GetAccessors \cup PutAccessors)
    => /\ Len(reqs) <= 1
       /\ ValidArguments => IF HasTransport THEN OneRequestToFixedPath ELSE reqs = <<>>

\* get_selected_effect has raised for a request answered with 500, and that
\* request was issued once
C15_Witness ==
    /\ Done("get_selected_effect")
    /\ result = "UnavailableError"
    /\ Len(reqs) = 1
    /\ reqs[1].resp.status = 500

(***************************************************************************)
(* C16, C17, C18                                                           *)
(***************************************************************************)

\* apply_temp has completed after reading the selected effect
TempDone == Done("apply_temp") /\ Len(reqs) >= 1 /\ reqs[1].kind = "GET"

\* the effect name the GET has yielded is usable: a non-empty name
PrevRead == reqs[1].ret # None /\ reqs[1].ret[1] # ""

WriteFailed == \E i \in 1..Len(reqs) : reqs[i].kind = "WRITE" /\ ~reqs[i].ok

\* C16: when the temporary scene raises inside apply_temp and a previous
\* effect name was read, no wait takes place, the last request is the one PUT
\* selecting that name, and the caller gets the scene's own error: the
\* device's for a failed write, ValueError for an unknown id or a brightness
\* that is out of range.
C16_RestoresOnSceneError ==
    (TempDone /\ PrevRead /\ result # "ok")
    => /\ EventsOfKind("WAIT") = <<>>
       /\ Len(EventsOfKind("PUT")) = 1
       /\ reqs[Len(reqs)].kind = "PUT"
       /\ reqs[Len(reqs)].select = reqs[1].ret[1]
       /\ result = IF WriteFailed THEN "DeviceError" ELSE "ValueError"

\* the device has refused the temporary scene; "Snowfall" was restored
C16_Witness ==
    /\ TempDone
    /\ Len(reqs) = 3
    /\ reqs[1].ret = Some("Snowfall")
    /\ reqs[2].kind = "WRITE" /\ ~reqs[2].ok
    /\ reqs[3].kind = "PUT" /\ reqs[3].select = "Snowfall"
    /\ result = "DeviceError"

\* the arguments of the completed apply_temp let the scene be built
SceneArguments ==
    /\ call.only # None => Range(call.only[1]) \subseteq Range(ids_ordered)
    /\ call.brightness # None => call.brightness[1] \in 0..100

\* C17: when the GET of the current effect fails or yields no usable name,
\* apply_temp still writes the temporary scene, waits (if the write is
\* accepted), issues no PUT and returns normally; when the restoring PUT
\* fails after an accepted write, apply_temp returns normally as well.
C17_SelectionFailuresSwallowed ==
    /\ (TempDone /\ ~PrevRead /\ SceneArguments)
       => /\ Len(EventsOfKind("WRITE")) = 1
          /\ EventsOfKind("PUT") = <<>>
          /\ ~WriteFailed => (Len(EventsOfKind("WAIT")) = 1 /\ result = "ok")
    /\ (TempDone /\ PrevRead /\ ~WriteFailed /\ SceneArguments)
       => /\ Len(EventsOfKind("PUT")) = 1
          /\ result = "ok"

\* the restoring PUT has failed and apply_temp has returned normally
C17_Witness ==
    /\ TempDone
    /\ Len(reqs) = 4
    /\ reqs[4].kind = "PUT" /\ ~reqs[4].ok
    /\ result = "ok"

\* C18: apply_temp on a client without a session, or without a base URL,
\* raises APIError and issues no request at all, write_effect or not.
C18_NoClientNoScene ==
    (Done("apply_temp") /\ (~nl.session \/ ~nl.base))
    => (result = "APIError" /\ reqs = <<>>)

\* apply_temp has raised APIError on a client that has a working write_effect
C18_Witness ==
    /\ Done("apply_temp")
    /\ nl.write_effect
    /\ nl.session /\ ~nl.base
    /\ result = "APIError"
    /\ reqs = <<>>

(***************************************************************************)
(* C19, C20                                                                *)
(***************************************************************************)

UnknownIn(only) == only # None /\ ~(Range(only[1]) \subseteq Range(ids_ordered))

\* C19: a sync whose command is neither "display" nor "displayTemp", or whose
\* `only` holds an id the twin does not have, raises ValueError, issues no
\* write and leaves the colour table as it was.
C19_SyncRejects ==
    [][(/\ pc = "idle"
        /\ call'.op = "sync"
        /\ (call'.command \notin {"display", "displayTemp"} \/ UnknownIn(call'.only)))
       => (result' = "ValueError" /\ reqs' = <<>> /\ colors' = colors)]_vars

\* sync(command="flash") has raised on a twin whose panels carry a colour
C19_Witness ==
    /\ Done("sync")
    /\ call.command = "flash"
    /\ call.only = None
    /\ result = "ValueError"
    /\ reqs = <<>>
    /\ \E pid \in DOMAIN colors : colors[pid] = <<255, 45, 0>>

\* C20: a sync or an apply_temp called with a brightness outside 0..100
\* raises ValueError and issues no write, whatever `only` selects.
C20_BrightnessRejected ==
    (/\ pc = "done"
     /\ call.op \in {"sync", "apply_temp"}
     /\ call.brightness # None
     /\ call.brightness[1] \notin 0..100
     /\ call.op = "apply_temp" => nl.session /\ nl.base)
    => (result = "ValueError" /\ EventsOfKind("WRITE") = <<>>)

(***************************************************************************)
(* C21                                                                     *)
(***************************************************************************)

\* the entries of a positionData value that name a panel id, an x and a y
CompleteEntries(pos) ==
    LET IsComplete(p) == p.isdict /\ p.panelId # None /\ p.x # None /\ p.y # None
        AsPanel(p) == [panel_id |-> p.panelId[1], x |-> p.x[1], y |-> p.y[1]]
        kept == IF pos.islist THEN SelectSeq(pos.items, IsComplete) ELSE <<>>
    IN  [i \in 1..Len(kept) |-> AsPanel(kept[i])]

\* the panels the layout endpoint yields: those of get_panel_layout if the
\* client has it, else those of panel_layout
LayoutSource ==
    LET m == IF nl.get_panel_layout.kind # "absent" THEN nl.get_panel_layout
             ELSE nl.panel_layout
    IN  IF m.kind = "dict" THEN CompleteEntries(m.positionData) ELSE <<>>

\* the panels of the info dict the client holds once create() has run
InfoSource == IF nl.info.kind = "dict" THEN CompleteEntries(nl.info.positionData) ELSE <<>>

\* the panels of the client's panel objects
ObjectSource ==
    LET Attr(a, b) == IF a # None THEN a ELSE b
        Usable(o) == /\ Attr(o.panelId, o.id) # None
                     /\ Attr(o.x, o.x_coordinate) # None
                     /\ Attr(o.y, o.y_coordinate) # None
        kept == IF nl.panels.islist THEN SelectSeq(nl.panels.items, Usable) ELSE <<>>
    IN  [i \in 1..Len(kept) |->
            [panel_id |-> Attr(kept[i].panelId, kept[i].id)[1],
             x |-> Attr(kept[i].x, kept[i].x_coordinate)[1],
             y |-> Attr(kept[i].y, kept[i].y_coordinate)[1]]]

FirstNonEmpty ==
    IF LayoutSource # <<>> THEN LayoutSource
    ELSE IF InfoSource # <<>> THEN InfoSource
    ELSE ObjectSource

\* a call of the client itself has raised inside create()
ClientRaised ==
    \/ nl.get_info = "raises"
    \/ nl.get_panel_layout.kind = "raises"
    \/ nl.get_panel_layout.kind = "absent" /\ nl.panel_layout.kind = "raises"

\* C21: a create() that returns has built the twin from the first non-empty
\* source in the order layout endpoint, info dict, panel objects, and that
\* twin has at least one panel; when no call of the client raises and every
\* source is empty, create() raises RuntimeError.
C21_FirstNonEmptySource ==
    (pc = "done" /\ call.op = "create")
    => /\ result = "ok" => (panels = FirstNonEmpty /\ Len(ids_ordered) >= 1
                            /\ DOMAIN colors = Range(ids_ordered))
       /\ (~ClientRaised /\ FirstNonEmpty = <<>>) => result = "RuntimeError"
       /\ (~ClientRaised /\ FirstNonEmpty # <<>>) => result = "ok"

\* get_panel_layout() has answered without a usable entry, panel_layout()
\* would have had two, the info dict has none: the twin is built from the
\* panel objects
C21_Witness ==
    /\ pc = "done" /\ call.op = "create"
    /\ result = "ok"
    /\ nl.get_panel_layout.kind = "dict"
    /\ nl.panel_layout.kind = "dict"
    /\ Len(CompleteEntries(nl.panel_layout.positionData)) = 2
    /\ ids_ordered = <<0, 50>>

(***************************************************************************)
(* C22                                                                     *)
(***************************************************************************)

\* apply_temp is about to leave, and the device shows another effect than
\* the one the GET has read: somebody has selected it during the wait
ChangedMeanwhile ==
    /\ pc = "finally"
    /\ call.op = "apply_temp"
    /\ reqs[1].ret # None
    /\ selected # reqs[1].ret[1]

\* C22 as stated: when another actor has selected a different effect during
\* the wait, the device shows the effect read at the start once apply_temp
\* has returned.
C22_OverwritesConcurrentSelection ==
    [][ChangedMeanwhile => selected' = reqs[1].ret[1]]_vars

\* C22 as amended: when another actor has selected a different effect during
\* the wait and the effect read at the start has a non-empty name E,
\* apply_temp ends with a PUT selecting E; the device shows E afterwards if
\* that PUT is accepted and keeps the other actor's effect if it is not.
C22_OverwritesIfPutAccepted ==
    [][(ChangedMeanwhile /\ reqs[1].ret[1] # "")
       => /\ Len(reqs') = Len(reqs) + 1
          /\ reqs'[Len(reqs')].kind = "PUT"
          /\ reqs'[Len(reqs')].select = reqs[1].ret[1]
          /\ selected' = IF reqs'[Len(reqs')].ok THEN reqs[1].ret[1] ELSE selected]_vars

\* "Snowfall" was read, the wait is over, and the device shows "Aurora"
C22_Witness ==
    /\ pc = "finally"
    /\ call.op = "apply_temp"
    /\ reqs[1].ret = Some("Snowfall")
    /\ reqs[Len(reqs)].kind = "WAIT"
    /\ selected = "Aurora"

(***************************************************************************)
(* C23                                                                     *)
(***************************************************************************)

\* C23: a set_color or set_hex that succeeds changes no colour but that of
\* its panel, and no step of a sync or of an apply_temp, succeeding or
\* failing, changes the colour table.
C23_EditsTouchTargetOnly ==
    [][/\ (pc = "idle" /\ call'.op \in {"set_color", "set_hex"} /\ result' = "ok")
          => /\ DOMAIN colors' = DOMAIN colors
             /\ \A q \in DOMAIN colors : q # call'.panel_id => colors'[q] = colors[q]
       /\ call'.op \in {"sync", "apply_temp"} => colors' = colors]_vars

\* set_hex has coloured panel 10 while panel 20 stays black
C23_Witness ==
    /\ Done("set_hex")
    /\ result = "ok"
    /\ call.panel_id = 10
    /\ DOMAIN colors = {10, 20}
    /\ colors[10] = <<255, 45, 0>>
    /\ colors[20] = <<0, 0, 0>>

====
